---------------------------- MODULE Spec2Model ----------------------------
(***************************************************************************)
(* Model of mu::notation::PartListModel                                    *)
(* (src/src/notation/view/partlistmodel.cpp): the list adapter that binds  *)
(* the master notation and its excerpts to a list view.                    *)
(*                                                                         *)
(* Rows are 0-based as in the code; the sequence m_notations is a TLA+     *)
(* sequence, so row r is m_notations[r + 1].                               *)
(*                                                                         *)
(* m_selectionModel is a QItemSelectionModel constructed with the list     *)
(* model itself as its model (line 30), so it follows the model's          *)
(* rowsAboutToBeRemoved / rowsInserted / modelReset signals.  Every        *)
(* selection range is a single row (selectPart toggles one index), so the  *)
(* selection is a list of distinct rows in selectedIndexes() order.        *)
(***************************************************************************)
EXTENDS Integers, Sequences, FiniteSets, TLC

(* ------------------------------ bounds -------------------------------- *)

\* excerpts the host's master notation holds when the dialog opens
NumHostExcerpts == 1
\* notations the factory and clone() can hand out in one session
MaxNewHandles == 2
\* operations called on the adapter in one session
MaxCalls == 4

(* --------------------------- program constants ------------------------ *)

\* number of voices of a staff (voicesVisibility loops voiceIndex < VOICES)
VOICES == 4

(* ------------------------------ handles ------------------------------- *)

\* context()->currentMasterNotation(): the one master handle
masterNotation == 0

HostHandles == 1 .. NumHostExcerpts
NewHandles == (NumHostExcerpts + 1) .. (NumHostExcerpts + MaxNewHandles)
Handles == {masterNotation} \cup HostHandles \cup NewHandles

Voices == 0 .. (VOICES - 1)

(* ------------------------------ strings ------------------------------- *)
\* A QString is a sequence of characters; += is concatenation.

TitlePart == <<"P", "a", "r", "t">>
TitleCopySuffix == <<" ", "(", "c", "o", "p", "y", ")">>
TitleScore == <<"S", "c", "o", "r", "e">>
TitleViolin == <<"V", "i", "o", "l", "i", "n">>
TitleSolo == <<"S", "o", "l", "o">>

\* titles the user types into setPartTitle
InputTitles == {TitlePart, TitleSolo, TitlePart \o TitleCopySuffix}

(* ------------------------------- state -------------------------------- *)

VARIABLES
    m_notations,        \* QList<INotationPtr>: the ordered sequence
    selection,          \* m_selectionModel: selected rows, selectedIndexes() order
    m_currentNotation,  \* pending-current pointer: {} (null) or {h}
    metaTitle,          \* handle -> metaInfo().title
    opened,             \* handle -> opened flag
    voiceVisible,       \* handle -> voice -> parts()->voiceVisible(voice)
    isExcerpt,          \* handle -> dynamic type is IExcerptNotation
    cloneOf,            \* handle -> {} or {source handle it was cloned from}
    allocated,          \* number of handles handed out by factory / clone()
    hostExcerpts,       \* masterNotation()->excerpts().val
    hostCurrent,        \* context()'s current notation: {} or {h}
    notifications,      \* signals emitted by the last operation, in order
    lastOp,             \* the last operation called and its arguments
    loads,              \* number of load() calls so far
    calls,              \* operations called so far
    displayed,          \* the display surface's cached list of rows
    queried             \* what the last data() query returned

vars == <<m_notations, selection, m_currentNotation, metaTitle, opened,
          voiceVisible, isExcerpt, cloneOf, allocated, hostExcerpts,
          hostCurrent, notifications, lastOp, loads, calls, displayed,
          queried>>

handleVars == <<metaTitle, opened, voiceVisible, isExcerpt, cloneOf, allocated>>
hostVars == <<hostExcerpts, hostCurrent>>

(* ------------------------------ helpers ------------------------------- *)

Range(s) == {s[k] : k \in 1 .. Len(s)}

\* m_notations[row]
At(s, row) == s[row + 1]

\* a removal that drops the row after the one asked for, when there is one
RemoveAtNext(s, row) ==
    IF row + 2 <= Len(s)
    THEN SubSeq(s, 1, row + 1) \o SubSeq(s, row + 3, Len(s))
    ELSE SubSeq(s, 1, row)

\* QList::removeAt(row)
RemoveAt(s, row) == SubSeq(s, 1, row) \o SubSeq(s, row + 2, Len(s))

\* QList::insert(row, x)
InsertAt(s, row, x) == SubSeq(s, 1, row) \o <<x>> \o SubSeq(s, row + 1, Len(s))

\* QList::indexOf(x): first row holding x, -1 when absent
IndexOf(s, x) ==
    IF x \in Range(s)
    THEN (CHOOSE k \in 1 .. Len(s) : s[k] = x /\ \A j \in 1 .. (k - 1) : s[j] # x) - 1
    ELSE -1

\* the elements of s satisfying Keep, in order
RECURSIVE FilterSeq(_, _)
FilterSeq(s, keep) ==
    IF s = <<>> THEN <<>>
    ELSE (IF Head(s) \in keep THEN <<Head(s)>> ELSE <<>>) \o FilterSeq(Tail(s), keep)

\* notification shapes
NModelReset == <<"modelReset">>
NDataChanged(row) == <<"dataChanged", row, row>>
NRowsInserted(row) == <<"rowsInserted", row, row>>
NRowsRemoved(row) == <<"rowsRemoved", row, row>>
NSelectionChanged == <<"selectionChanged">>

\* the next handle not yet handed out
NextHandle == NumHostExcerpts + allocated + 1

\* notationCreator()->newExcerptNotation(): a new excerpt handle
newExcerptNotation == NextHandle

\* INotation::clone(): a new handle, an independent copy of its source
clone(source) == NextHandle

(* ------------------------- PartListModel queries ---------------------- *)

IndexValidIn(s, index) == index >= 0 /\ index < Len(s)

isNotationIndexValid(index) == IndexValidIn(m_notations, index)

isVoiceIndexValid(index) == index >= 0 /\ index < VOICES

rowCount == Len(m_notations)

\* data(index, RoleIsMain)
isMain(row) == At(m_notations, row) = masterNotation

\* data(index, RoleIsSelected)
isSelected(row) == row \in Range(selection)

selectedRows == selection

hasSelection == selection # <<>>

(* --------------------------- voices title ----------------------------- *)

TitleNone == <<"N", "o", "n", "e">>
TitleAll == <<"A", "l", "l">>
VoicesSeparator == <<",", " ">>

DigitChars == <<"0", "1", "2", "3", "4", "5", "6", "7", "8", "9">>

\* QString::number(n) for n >= 0: the decimal digits of n
RECURSIVE QStringNumber(_)
QStringNumber(n) ==
    IF n < Len(DigitChars)
    THEN <<DigitChars[n + 1]>>
    ELSE QStringNumber(n \div Len(DigitChars))
             \o <<DigitChars[(n % Len(DigitChars)) + 1]>>

\* QStringList::join(separator)
RECURSIVE Join(_, _)
Join(strings, separator) ==
    IF strings = <<>> THEN <<>>
    ELSE IF Len(strings) = 1 THEN Head(strings)
    ELSE Head(strings) \o separator \o Join(Tail(strings), separator)

\* voicesVisibility(notation): one entry per voice, voice 0 first (every
\* row of m_notations holds a notation, so the null branch is not taken)
voicesVisibility(notation) ==
    [k \in 1 .. VOICES |-> voiceVisible[notation][k - 1]]

\* a loop that numbers the voices from 0
RECURSIVE VoiceNumbersZeroBased(_, _)
VoiceNumbersZeroBased(visibility, voiceIndex) ==
    IF voiceIndex >= Len(visibility) THEN <<>>
    ELSE (IF visibility[voiceIndex + 1]
          THEN <<QStringNumber(voiceIndex)>> ELSE <<>>)
         \o VoiceNumbersZeroBased(visibility, voiceIndex + 1)

\* the loop of formatVoicesTitle from voiceIndex on: the 1-based numbers of
\* the visible voices, as strings
RECURSIVE VoiceNumbers(_, _)
VoiceNumbers(visibility, voiceIndex) ==
    IF voiceIndex >= Len(visibility) THEN <<>>
    ELSE (IF visibility[voiceIndex + 1]
          THEN <<QStringNumber(voiceIndex + 1)>> ELSE <<>>)
         \o VoiceNumbers(visibility, voiceIndex + 1)

\* a formatVoicesTitle() that numbers the voices from 0
formatVoicesTitleZeroBased(notation) ==
    LET visibility == voicesVisibility(notation)
        voices == VoiceNumbersZeroBased(visibility, 0)
    IN IF voices = <<>> THEN TitleNone
       ELSE IF Len(voices) = Len(visibility) THEN TitleAll
       ELSE Join(voices, VoicesSeparator)

\* a formatVoicesTitle() that says "All" as soon as a voice is visible
formatVoicesTitleAllWhenAny(notation) ==
    LET visibility == voicesVisibility(notation)
        voices == VoiceNumbers(visibility, 0)
    IN IF voices = <<>> THEN TitleNone ELSE TitleAll

\* formatVoicesTitle(notation)
formatVoicesTitle(notation) ==
    LET visibility == voicesVisibility(notation)
        voices == VoiceNumbers(visibility, 0)
    IN IF voices = <<>> THEN TitleNone
       ELSE IF Len(voices) = Len(visibility) THEN TitleAll
       ELSE Join(voices, VoicesSeparator)

(* -------------------- QItemSelectionModel behaviour ------------------- *)

\* a select(index, Select): a selected row stays selected
SelectNoToggle(sel, row) ==
    IF row \in Range(sel) THEN sel ELSE Append(sel, row)

\* select(index, Toggle): a selected row is dropped, an unselected one is
\* appended after the existing ranges
SelectToggle(sel, row) ==
    IF row \in Range(sel)
    THEN FilterSeq(sel, Range(sel) \ {row})
    ELSE Append(sel, row)

\* a removal that leaves the selection model untouched
SelectionRowsRemovedStale(sel, row) == sel

\* rowsAboutToBeRemoved(row, row): the range on the removed row is erased,
\* ranges below it move up with their persistent indexes
SelectionRowsRemoved(sel, row) ==
    LET kept == FilterSeq(sel, Range(sel) \ {row})
    IN [k \in 1 .. Len(kept) |-> IF kept[k] > row THEN kept[k] - 1 ELSE kept[k]]

\* rowsAboutToBeRemoved emits selectionChanged when a range was deselected
\* or the index of a selected row changed
SelectionRowsRemovedEmits(sel, row) ==
    \E r \in Range(sel) : r >= row

\* rowsInserted(row, row): persistent indexes at or below the row move down
SelectionRowsInserted(sel, row) ==
    [k \in 1 .. Len(sel) |-> IF sel[k] >= row THEN sel[k] + 1 ELSE sel[k]]

(* ----------------------------- operations ----------------------------- *)

Init ==
    /\ m_notations = <<>>
    /\ selection = <<>>
    /\ m_currentNotation = {}
    /\ metaTitle = [h \in Handles |->
                      IF h = masterNotation THEN TitleScore
                      ELSE IF h \in HostHandles THEN TitleViolin
                      ELSE <<>>]
    /\ opened = [h \in Handles |-> h = masterNotation]
    /\ voiceVisible = [h \in Handles |-> [v \in Voices |-> TRUE]]
    /\ isExcerpt = [h \in Handles |-> h \in HostHandles]
    /\ cloneOf = [h \in Handles |-> {}]
    /\ allocated = 0
    /\ hostExcerpts = [k \in 1 .. NumHostExcerpts |-> k]
    /\ hostCurrent = {masterNotation}
    /\ notifications = <<>>
    /\ lastOp = <<"init">>
    /\ loads = 0
    /\ calls = 0
    /\ displayed = <<>>
    /\ queried = <<>>

\* an operation that returns early: nothing but the call record changes
NoOp(call) ==
    /\ lastOp' = call
    /\ notifications' = <<>>
    /\ UNCHANGED <<m_notations, selection, m_currentNotation, handleVars,
                   hostVars, loads>>

\* load(): appends the master and the host's excerpts to m_notations
\* between beginResetModel() and endResetModel()
LoadResult(s) == s \o <<masterNotation>> \o hostExcerpts

\* the selection model resets on modelReset, without a signal
Load ==
    /\ m_notations' = LoadResult(m_notations)
    /\ selection' = <<>>
    /\ notifications' = <<NModelReset>>
    /\ lastOp' = <<"load">>
    /\ loads' = loads + 1
    /\ UNCHANGED <<m_currentNotation, handleVars, hostVars>>

\* an insertNotation() without beginInsertRows() / endInsertRows()
InsertNotationSilent(destinationIndex, notation) ==
    /\ m_notations' = InsertAt(m_notations, destinationIndex, notation)
    /\ selection' = selection
    /\ notifications' = <<>>

\* insertNotation(destinationIndex, notation)
InsertNotation(destinationIndex, notation) ==
    /\ m_notations' = InsertAt(m_notations, destinationIndex, notation)
    /\ selection' = SelectionRowsInserted(selection, destinationIndex)
    /\ notifications' = <<NRowsInserted(destinationIndex)>>

\* a creation that puts the new part before the last row
NewPartDestinationBeforeLast ==
    IF m_notations = <<>> THEN Len(m_notations) ELSE Len(m_notations) - 1

\* createNewPart(): the new part goes to m_notations.size()
NewPartDestination == Len(m_notations)

\* a creation that also commits the new part to the host
CreateNewPartPersisting ==
    /\ allocated < MaxNewHandles
    /\ LET notation == newExcerptNotation
       IN /\ metaTitle' = [metaTitle EXCEPT ![notation] = TitlePart]
          /\ opened' = [opened EXCEPT ![notation] = TRUE]
          /\ isExcerpt' = [isExcerpt EXCEPT ![notation] = TRUE]
          /\ allocated' = allocated + 1
          /\ InsertNotation(NewPartDestination, notation)
          /\ m_currentNotation' = {notation}
          /\ hostExcerpts' = Append(hostExcerpts, notation)
          /\ hostCurrent' = {notation}
    /\ lastOp' = <<"createNewPart">>
    /\ UNCHANGED <<voiceVisible, cloneOf, loads>>

\* createNewPart(): notationCreator()->newExcerptNotation() hands out a new
\* excerpt-typed handle
CreateNewPart ==
    /\ allocated < MaxNewHandles
    /\ LET notation == newExcerptNotation
       IN /\ metaTitle' = [metaTitle EXCEPT ![notation] = TitlePart]
          /\ opened' = [opened EXCEPT ![notation] = TRUE]
          /\ isExcerpt' = [isExcerpt EXCEPT ![notation] = TRUE]
          /\ allocated' = allocated + 1
          /\ InsertNotation(NewPartDestination, notation)
          /\ m_currentNotation' = {notation}
    /\ lastOp' = <<"createNewPart">>
    /\ UNCHANGED <<voiceVisible, cloneOf, hostVars, loads>>

\* a selectPart() without the bounds check
SelectPartUnchecked(partIndex) ==
    /\ selection' = SelectToggle(selection, partIndex)
    /\ notifications' = <<NSelectionChanged, NDataChanged(partIndex)>>
    /\ lastOp' = <<"selectPart", partIndex>>
    /\ UNCHANGED <<m_notations, m_currentNotation, handleVars, hostVars,
                   loads>>

\* selectPart(partIndex)
SelectPart(partIndex) ==
    IF ~isNotationIndexValid(partIndex)
    THEN NoOp(<<"selectPart", partIndex>>)
    ELSE /\ selection' = SelectToggle(selection, partIndex)
         /\ notifications' = <<NSelectionChanged, NDataChanged(partIndex)>>
         /\ lastOp' = <<"selectPart", partIndex>>
         /\ UNCHANGED <<m_notations, m_currentNotation, handleVars, hostVars,
                        loads>>

\* removePart(partIndex) on the adapter state st = [seq, sel, opened, notes]
RemovePartOn(st, partIndex) ==
    IF ~IndexValidIn(st.seq, partIndex)
    THEN st
    ELSE [seq |-> RemoveAt(st.seq, partIndex),
          sel |-> SelectionRowsRemoved(st.sel, partIndex),
          opened |-> [st.opened EXCEPT ![At(st.seq, partIndex)] = FALSE],
          notes |-> st.notes
                    \o (IF SelectionRowsRemovedEmits(st.sel, partIndex)
                        THEN <<NSelectionChanged>> ELSE <<>>)
                    \o <<NRowsRemoved(partIndex)>>]

AdapterState ==
    [seq |-> m_notations, sel |-> selection, opened |-> opened, notes |-> <<>>]

\* removePart(partIndex)
RemovePart(partIndex) ==
    LET st == RemovePartOn(AdapterState, partIndex)
    IN /\ m_notations' = st.seq
       /\ selection' = st.sel
       /\ opened' = st.opened
       /\ notifications' = st.notes
       /\ lastOp' = <<"removePart", partIndex>>
       /\ UNCHANGED <<m_currentNotation, metaTitle, voiceVisible, isExcerpt,
                      cloneOf, allocated, hostVars, loads>>

\* the second loop of removeSelectedParts(): each snapshotted handle is
\* resolved to its current row with indexOf and removed
RECURSIVE RemoveNotations(_, _)
RemoveNotations(st, notationsToRemove) ==
    IF notationsToRemove = <<>>
    THEN st
    ELSE RemoveNotations(
             RemovePartOn(st, IndexOf(st.seq, Head(notationsToRemove))),
             Tail(notationsToRemove))

\* removeSelectedParts(); m_selectionModel->clear() signals only when
\* something is still selected
RemoveSelectedParts ==
    LET rows == selectedRows
        notationsToRemove == [k \in 1 .. Len(rows) |-> At(m_notations, rows[k])]
        st == RemoveNotations(AdapterState, notationsToRemove)
    IN IF rows = <<>>
       THEN NoOp(<<"removeSelectedParts">>)
       ELSE /\ m_notations' = st.seq
            /\ selection' = <<>>
            /\ opened' = st.opened
            /\ notifications' = st.notes
                   \o (IF st.sel # <<>> THEN <<NSelectionChanged>> ELSE <<>>)
            /\ lastOp' = <<"removeSelectedParts">>
            /\ UNCHANGED <<m_currentNotation, metaTitle, voiceVisible,
                           isExcerpt, cloneOf, allocated, hostVars, loads>>

\* a setPartTitle() without the equal-title early return
SetPartTitleAlwaysNotifies(partIndex, title) ==
    IF ~isNotationIndexValid(partIndex)
    THEN NoOp(<<"setPartTitle", partIndex, title>>)
    ELSE LET notation == At(m_notations, partIndex)
         IN /\ metaTitle' = [metaTitle EXCEPT ![notation] = title]
            /\ notifications' = <<NDataChanged(partIndex)>>
            /\ lastOp' = <<"setPartTitle", partIndex, title>>
            /\ UNCHANGED <<m_notations, selection, m_currentNotation,
                           opened, voiceVisible, isExcerpt, cloneOf,
                           allocated, hostVars, loads>>

\* setPartTitle(partIndex, title)
SetPartTitle(partIndex, title) ==
    IF ~isNotationIndexValid(partIndex)
    THEN NoOp(<<"setPartTitle", partIndex, title>>)
    ELSE LET notation == At(m_notations, partIndex)
         IN IF metaTitle[notation] = title
            THEN NoOp(<<"setPartTitle", partIndex, title>>)
            ELSE /\ metaTitle' = [metaTitle EXCEPT ![notation] = title]
                 /\ notifications' = <<NDataChanged(partIndex)>>
                 /\ lastOp' = <<"setPartTitle", partIndex, title>>
                 /\ UNCHANGED <<m_notations, selection, m_currentNotation,
                                opened, voiceVisible, isExcerpt, cloneOf,
                                allocated, hostVars, loads>>

\* setVoiceVisible(partIndex, voiceIndex, visible)
SetVoiceVisible(partIndex, voiceIndex, visible) ==
    IF ~isNotationIndexValid(partIndex) \/ ~isVoiceIndexValid(voiceIndex)
    THEN NoOp(<<"setVoiceVisible", partIndex, voiceIndex, visible>>)
    ELSE LET notation == At(m_notations, partIndex)
         IN IF voiceVisible[notation][voiceIndex] = visible
            THEN NoOp(<<"setVoiceVisible", partIndex, voiceIndex, visible>>)
            ELSE /\ voiceVisible' =
                        [voiceVisible EXCEPT ![notation][voiceIndex] = visible]
                 /\ notifications' = <<NDataChanged(partIndex)>>
                 /\ lastOp' = <<"setVoiceVisible", partIndex, voiceIndex, visible>>
                 /\ UNCHANGED <<m_notations, selection, m_currentNotation,
                                metaTitle, opened, isExcerpt, cloneOf,
                                allocated, hostVars, loads>>

\* a copy that is appended at the end
CopyDestinationEnd(partIndex) == Len(m_notations)

\* copyPart(): the copy goes right after its source
CopyDestination(partIndex) == partIndex + 1

\* copyPart(partIndex); clone() hands out a new handle carrying a copy of
\* the source's content, whose dynamic type the adapter does not decide
CopyPart(partIndex) ==
    IF ~isNotationIndexValid(partIndex)
    THEN NoOp(<<"copyPart", partIndex>>)
    ELSE /\ allocated < MaxNewHandles
         /\ LET source == At(m_notations, partIndex)
                copy == clone(source)
            IN /\ metaTitle' = [metaTitle EXCEPT
                                  ![copy] = metaTitle[source] \o TitleCopySuffix]
               /\ opened' = [opened EXCEPT ![copy] = opened[source]]
               /\ voiceVisible' = [voiceVisible EXCEPT ![copy] = voiceVisible[source]]
               /\ \E excerptTyped \in BOOLEAN :
                      isExcerpt' = [isExcerpt EXCEPT ![copy] = excerptTyped]
               /\ cloneOf' = [cloneOf EXCEPT ![copy] = {source}]
               /\ allocated' = allocated + 1
               /\ InsertNotation(CopyDestination(partIndex), copy)
         /\ lastOp' = <<"copyPart", partIndex>>
         /\ UNCHANGED <<m_currentNotation, hostVars, loads>>

\* an openSelectedParts() that takes the first selected row
FirstSelectedRow(rows) == rows[1]

\* openSelectedParts(): rows.last()
LastSelectedRow(rows) == rows[Len(rows)]

\* openSelectedParts()
OpenSelectedParts ==
    LET rows == selectedRows
    IN IF rows = <<>>
       THEN NoOp(<<"openSelectedParts">>)
       ELSE /\ opened' = [h \in Handles |->
                            IF \E k \in 1 .. Len(rows) : At(m_notations, rows[k]) = h
                            THEN TRUE ELSE opened[h]]
            /\ m_currentNotation' = {At(m_notations, LastSelectedRow(rows))}
            /\ notifications' = <<>>
            /\ lastOp' = <<"openSelectedParts">>
            /\ UNCHANGED <<m_notations, selection, metaTitle, voiceVisible,
                           isExcerpt, cloneOf, allocated, hostVars, loads>>

\* a commit that sends the whole sequence
ApplyExcerptsUnfiltered(s) == s

\* apply(): the entries that dynamic_pointer_cast to IExcerptNotation
ApplyExcerpts(s) == FilterSeq(s, {h \in Handles : isExcerpt[h]})

\* apply()
Apply ==
    /\ hostExcerpts' = ApplyExcerpts(m_notations)
    /\ hostCurrent' = m_currentNotation
    /\ notifications' = <<>>
    /\ lastOp' = <<"apply">>
    /\ UNCHANGED <<m_notations, selection, m_currentNotation, handleVars,
                   loads>>

\* row and voice indexes a caller may pass, one below and one above the
\* valid range included
PartIndexes == -1 .. Len(m_notations)
VoiceIndexes == -1 .. VOICES

Next ==
    \/ Load
    \/ CreateNewPart
    \/ \E partIndex \in PartIndexes : SelectPart(partIndex)
    \/ \E partIndex \in PartIndexes : RemovePart(partIndex)
    \/ RemoveSelectedParts
    \/ \E partIndex \in PartIndexes, title \in InputTitles :
           SetPartTitle(partIndex, title)
    \/ \E partIndex \in PartIndexes, voiceIndex \in VoiceIndexes, visible \in BOOLEAN :
           SetVoiceVisible(partIndex, voiceIndex, visible)
    \/ \E partIndex \in PartIndexes : CopyPart(partIndex)
    \/ OpenSelectedParts
    \/ Apply

\* the display surface patches its cached list with one signal: a full
\* reset re-reads every row, an insertion reads the new row from the
\* adapter, a removal drops the row; other signals leave the list alone
DisplayPatch(cache, note, model) ==
    IF note = NModelReset THEN model
    ELSE IF note[1] = "rowsInserted" THEN InsertAt(cache, note[2], At(model, note[2]))
    ELSE IF note[1] = "rowsRemoved" THEN RemoveAt(cache, note[2])
    ELSE cache

\* the display surface handles the signals of one operation in order
RECURSIVE DisplayPatchAll(_, _, _)
DisplayPatchAll(cache, notes, model) ==
    IF notes = <<>> THEN cache
    ELSE DisplayPatchAll(DisplayPatch(cache, Head(notes), model), Tail(notes), model)

\* one call of the adapter's interface, with the display surface
\* handling the signals it emitted
Call ==
    /\ calls < MaxCalls
    /\ calls' = calls + 1
    /\ Next
    /\ displayed' = DisplayPatchAll(displayed, notifications', m_notations')
    /\ queried' = <<>>

Spec == Init /\ [][Call]_vars

(* ------------------------------ row queries --------------------------- *)

\* the roles of roleNames(), and one role the adapter does not know
Roles == {"title", "isSelected", "isMain", "voicesVisibility", "voicesTitle",
          "other"}

\* QVariant(): no result
NoData == <<"invalid">>

\* data(index, role): an index outside the rows is not valid
Data(row, role) ==
    /\ queried' =
           IF ~isNotationIndexValid(row) THEN NoData
           ELSE LET notation == At(m_notations, row)
                IN CASE role = "title" -> <<role, metaTitle[notation]>>
                     [] role = "isSelected" -> <<role, isSelected(row)>>
                     [] role = "isMain" -> <<role, isMain(row)>>
                     [] role = "voicesVisibility" ->
                            <<role, voicesVisibility(notation)>>
                     [] role = "voicesTitle" ->
                            <<role, formatVoicesTitle(notation)>>
                     [] OTHER -> NoData
    /\ lastOp' = <<"data", row, role>>
    /\ notifications' = <<>>
    /\ UNCHANGED <<m_notations, selection, m_currentNotation, handleVars,
                   hostVars, loads, calls, displayed>>

\* the dialog right after load(), the host's notations having any voice
\* visibility
InitData ==
    /\ hostExcerpts = [k \in 1 .. NumHostExcerpts |-> k]
    /\ m_notations = LoadResult(<<>>)
    /\ selection = <<>>
    /\ m_currentNotation = {}
    /\ metaTitle = [h \in Handles |->
                      IF h = masterNotation THEN TitleScore
                      ELSE IF h \in HostHandles THEN TitleViolin
                      ELSE <<>>]
    /\ opened = [h \in Handles |-> h = masterNotation]
    /\ \E hostVisible \in [{masterNotation} \cup HostHandles -> [Voices -> BOOLEAN]] :
           voiceVisible = [h \in Handles |->
                             IF h \in NewHandles THEN [v \in Voices |-> TRUE]
                             ELSE hostVisible[h]]
    /\ isExcerpt = [h \in Handles |-> h \in HostHandles]
    /\ cloneOf = [h \in Handles |-> {}]
    /\ allocated = 0
    /\ hostCurrent = {masterNotation}
    /\ notifications = <<NModelReset>>
    /\ lastOp = <<"load">>
    /\ loads = 1
    /\ calls = 1
    /\ displayed = LoadResult(<<>>)
    /\ queried = <<>>

NextData ==
    \E row \in PartIndexes, role \in Roles : Data(row, role)

\* the display surface querying the rows of the loaded dialog
SpecData == InitData /\ [][NextData]_vars

(* ------------------------------ properties --------------------------- *)

\* the last call's name
OpName(op) == op[1]

\* the rows holding the master
MasterRows == {row \in 0 .. (Len(m_notations) - 1) : isMain(row)}

\* the rows of s that are not in the set rows, in order
DropRows(s, rows) ==
    LET keptRows == {row \in 0 .. (Len(s) - 1) : row \notin rows}
        \* the kept row with exactly k - 1 kept rows before it
        nth(k) == CHOOSE row \in keptRows :
                      Cardinality({r \in keptRows : r < row}) = k - 1
    IN [k \in 1 .. Cardinality(keptRows) |-> At(s, nth(k))]

\* C1: after a single load() and any calls other than load(), the sequence
\* holds the master exactly once, at row 0.
C1_MasterNeverRemoved ==
    loads = 1 => MasterRows = {0}

\* C2: whatever the state before, right after load() the sequence is the
\* master followed by the host's excerpts in the host's order, and one full
\* reset was signalled.
C2_LoadClears ==
    [][OpName(lastOp') = "load" =>
           /\ m_notations' = <<masterNotation>> \o hostExcerpts
           /\ notifications' = <<NModelReset>>]_vars

\* C3: removeSelectedParts() removes exactly the rows selected at call time:
\* the unselected rows remain in order and the selection is empty afterward.
C3_RemoveSelectedExact ==
    [][OpName(lastOp') = "removeSelectedParts" =>
           /\ m_notations' = DropRows(m_notations, Range(selection))
           /\ selection' = <<>>]_vars

\* C4: every selected row is a row of the sequence.
C4_SelectionInBounds ==
    \A k \in 1 .. Len(selection) :
        selection[k] >= 0 /\ selection[k] < rowCount

\* C4 witness: a row was removed above a selected row, which is still
\* selected at its new index.
C4_Witness ==
    /\ OpName(lastOp) = "removePart"
    /\ notifications # <<>>
    /\ selection # <<>>
    /\ \E k \in 1 .. Len(selection) : selection[k] >= lastOp[2]

\* C5: apply() hands the host the excerpt-typed entries of the sequence in
\* their order, without the master, and the pending-current handle as the
\* current notation.
C5_ApplySendsExcerpts ==
    [][OpName(lastOp') = "apply" =>
           LET excerptRows == {j \in 1 .. Len(m_notations) : isExcerpt[m_notations[j]]}
           IN /\ Len(hostExcerpts') = Cardinality(excerptRows)
              /\ \A j \in excerptRows :
                     hostExcerpts'[Cardinality({i \in excerptRows : i <= j})]
                         = m_notations[j]
              /\ masterNotation \notin Range(hostExcerpts')
              /\ hostCurrent' = m_currentNotation]_vars

\* C5 witness: apply() sent a list of two excerpts next to a pending-current
\* handle.
C5_Witness ==
    /\ OpName(lastOp) = "apply"
    /\ Len(hostExcerpts) >= 2
    /\ Len(m_notations) > Len(hostExcerpts)
    /\ hostCurrent # {} /\ hostCurrent # {masterNotation}

\* C6: a call other than apply() leaves the host's excerpt list and the
\* host's current notation as they were.
C6_NoPersistenceBeforeApply ==
    [][OpName(lastOp') # "apply" =>
           /\ hostExcerpts' = hostExcerpts
           /\ hostCurrent' = hostCurrent]_vars

\* C6 witness: a part was created and one removed, and the host still holds
\* its original excerpt list and current notation.
C6_Witness ==
    /\ OpName(lastOp) = "removePart"
    /\ allocated > 0
    /\ NumHostExcerpts + 1 \in Range(m_notations)
    /\ 1 \notin Range(m_notations)
    /\ hostExcerpts = [k \in 1 .. NumHostExcerpts |-> k]
    /\ hostCurrent = {masterNotation}
    /\ m_currentNotation # hostCurrent

\* the call op, made in the current state, has a row index outside
\* [0, rowCount) or, for setVoiceVisible, a voice index outside [0, VOICES)
InvalidIndexCall(op) ==
    \/ /\ OpName(op) \in {"selectPart", "removePart", "copyPart",
                          "setPartTitle", "setVoiceVisible"}
       /\ (op[2] < 0 \/ op[2] >= Len(m_notations))
    \/ /\ OpName(op) = "setVoiceVisible"
       /\ (op[3] < 0 \/ op[3] >= VOICES)

\* C7: an index-taking call with an invalid row or voice index changes
\* nothing and signals nothing.
C7_InvalidIndexNoOp ==
    [][InvalidIndexCall(lastOp') =>
           /\ UNCHANGED <<m_notations, selection, m_currentNotation,
                          metaTitle, voiceVisible, opened>>
           /\ notifications' = <<>>]_vars

\* C7 witness: setVoiceVisible was called on a valid row with the voice
\* index one past the last voice, after the sequence was edited.
C7_Witness ==
    /\ OpName(lastOp) = "setVoiceVisible"
    /\ lastOp[2] >= 0 /\ lastOp[2] < Len(m_notations)
    /\ lastOp[3] = VOICES
    /\ lastOp[4] = FALSE
    /\ selection # <<>>
    /\ notifications = <<>>

\* C8: once load() has been called, row 0 is the master and isMain is true
\* for row 0 only.
C8_MainOnlyRowZero ==
    loads >= 1 => MasterRows = {0}

\* C9: createNewPart() appends a new handle after the existing rows, signals
\* one insertion at that row, and the new row is not the master, is opened
\* and is the pending-current handle.
C9_CreateAppends ==
    [][OpName(lastOp') = "createNewPart" =>
           LET n == Len(m_notations)
               notation == m_notations'[n + 1]
           IN /\ Len(m_notations') = n + 1
              /\ SubSeq(m_notations', 1, n) = m_notations
              /\ notifications' = <<NRowsInserted(n)>>
              /\ notation # masterNotation
              /\ opened'[notation]
              /\ m_currentNotation' = {notation}]_vars

\* C9 witness: a part was created on a sequence that already held a created
\* part.
C9_Witness ==
    /\ OpName(lastOp) = "createNewPart"
    /\ allocated = 2
    /\ Len(m_notations) >= 3
    /\ m_currentNotation = {m_notations[Len(m_notations)]}

\* C10: copyPart(i) on a valid row puts a new handle at row i + 1, keeps the
\* rows up to i, shifts the rows after i by one and titles the copy with the
\* source's title followed by " (copy)"; removing or renaming a row
\* afterward leaves the title of every copy made from it as it was.
C10_CopyInsertsAfterSource ==
    [][/\ (OpName(lastOp') = "copyPart"
              /\ lastOp'[2] >= 0 /\ lastOp'[2] < Len(m_notations)) =>
           LET i == lastOp'[2]
               n == Len(m_notations)
               copy == m_notations'[i + 2]
           IN /\ Len(m_notations') = n + 1
              /\ \A row \in 0 .. i : At(m_notations', row) = At(m_notations, row)
              /\ \A row \in (i + 1) .. (n - 1) :
                     At(m_notations', row + 1) = At(m_notations, row)
              /\ copy \notin Range(m_notations)
              /\ metaTitle'[copy] = metaTitle[At(m_notations, i)]
                                       \o <<" ", "(", "c", "o", "p", "y", ")">>
       /\ (OpName(lastOp') \in {"removePart", "setPartTitle"}
              /\ lastOp'[2] >= 0 /\ lastOp'[2] < Len(m_notations)) =>
           \A copy \in Handles :
               cloneOf[copy] = {At(m_notations, lastOp'[2])} =>
                   metaTitle'[copy] = metaTitle[copy]]_vars

\* C10 witness: a row was copied, then renamed, and the copy next to it
\* still carries the old title with the suffix.
C10_Witness ==
    /\ OpName(lastOp) = "setPartTitle"
    /\ notifications # <<>>
    /\ lastOp[2] + 1 < Len(m_notations)
    /\ LET source == At(m_notations, lastOp[2])
           copy == At(m_notations, lastOp[2] + 1)
       IN /\ cloneOf[copy] = {source}
          /\ metaTitle[source] = TitleSolo
          /\ metaTitle[copy] = TitleViolin \o TitleCopySuffix

\* what the adapter holds besides the handles' title and voice visibility
StructureVars == <<m_notations, selection, m_currentNotation, opened,
                   isExcerpt, hostExcerpts, hostCurrent>>

\* C11: setPartTitle with the row's current title and setVoiceVisible with
\* the voice's current visibility signal nothing and change nothing; with
\* a different value the handle is updated in place and one dataChanged for
\* that row is signalled.
C11_EqualValueIsNoOp ==
    [][/\ (OpName(lastOp') = "setPartTitle"
              /\ lastOp'[2] >= 0 /\ lastOp'[2] < Len(m_notations)) =>
           LET i == lastOp'[2]
               notation == At(m_notations, i)
           IN IF metaTitle[notation] = lastOp'[3]
              THEN /\ notifications' = <<>>
                   /\ UNCHANGED <<StructureVars, metaTitle, voiceVisible>>
              ELSE /\ notifications' = <<NDataChanged(i)>>
                   /\ metaTitle'[notation] = lastOp'[3]
                   /\ \A h \in Handles \ {notation} : metaTitle'[h] = metaTitle[h]
                   /\ UNCHANGED <<StructureVars, voiceVisible>>
       /\ (OpName(lastOp') = "setVoiceVisible"
              /\ lastOp'[2] >= 0 /\ lastOp'[2] < Len(m_notations)
              /\ lastOp'[3] >= 0 /\ lastOp'[3] < VOICES) =>
           LET i == lastOp'[2]
               v == lastOp'[3]
               notation == At(m_notations, i)
           IN IF voiceVisible[notation][v] = lastOp'[4]
              THEN /\ notifications' = <<>>
                   /\ UNCHANGED <<StructureVars, metaTitle, voiceVisible>>
              ELSE /\ notifications' = <<NDataChanged(i)>>
                   /\ voiceVisible'[notation][v] = lastOp'[4]
                   /\ \A h \in Handles, w \in Voices :
                          (h # notation \/ w # v) =>
                              voiceVisible'[h][w] = voiceVisible[h][w]
                   /\ UNCHANGED <<StructureVars, metaTitle>>]_vars

\* C11 witness: a row renamed earlier was given the same title again, and
\* nothing was signalled.
C11_Witness ==
    /\ OpName(lastOp) = "setPartTitle"
    /\ lastOp[2] >= 0 /\ lastOp[2] < Len(m_notations)
    /\ lastOp[3] = TitleSolo
    /\ metaTitle[At(m_notations, lastOp[2])] = TitleSolo
    /\ notifications = <<>>

\* C14: openSelectedParts() with nothing selected changes nothing; otherwise
\* every selected handle is opened, the handle on the last row of the
\* selection's iteration order becomes pending-current, and the sequence and
\* the selection stay as they were.
C14_OpenSelected ==
    [][OpName(lastOp') = "openSelectedParts" =>
           IF selection = <<>>
           THEN /\ UNCHANGED <<StructureVars, metaTitle, voiceVisible>>
                /\ notifications' = <<>>
           ELSE /\ \A k \in 1 .. Len(selection) :
                       opened'[At(m_notations, selection[k])]
                /\ \A h \in Handles :
                       (\A k \in 1 .. Len(selection) :
                            At(m_notations, selection[k]) # h) =>
                           opened'[h] = opened[h]
                /\ m_currentNotation' =
                       {At(m_notations, selection[Len(selection)])}
                /\ UNCHANGED <<m_notations, selection>>]_vars

\* C14 witness: two rows were selected, the upper one last, and opening made
\* the upper row's handle pending-current.
C14_Witness ==
    /\ OpName(lastOp) = "openSelectedParts"
    /\ Len(selection) = 2
    /\ selection[2] < selection[1]
    /\ m_currentNotation = {At(m_notations, selection[2])}
    /\ opened[At(m_notations, selection[1])]
    /\ At(m_notations, selection[1]) # At(m_notations, selection[2])

\* C15: selectPart(i) on a valid row flips the membership of row i in the
\* selection and of no other row, leaves the sequence alone and signals
\* dataChanged for row i and for no other row, never a full reset;
\* hasSelection tells whether some row is selected.
C15_SelectToggles ==
    [][(OpName(lastOp') = "selectPart"
           /\ lastOp'[2] >= 0 /\ lastOp'[2] < Len(m_notations)) =>
           LET i == lastOp'[2]
           IN /\ (i \in Range(selection')) = (i \notin Range(selection))
              /\ Range(selection') \ {i} = Range(selection) \ {i}
              /\ m_notations' = m_notations
              /\ \E k \in 1 .. Len(notifications') :
                     notifications'[k] = <<"dataChanged", i, i>>
              /\ \A k \in 1 .. Len(notifications') :
                     /\ notifications'[k][1] # "modelReset"
                     /\ notifications'[k][1] = "dataChanged" =>
                            notifications'[k] = <<"dataChanged", i, i>>
              /\ hasSelection' = (\E row \in 0 .. (Len(m_notations') - 1) :
                                      isSelected(row)')]_vars

\* C15 witness: a row was selected next to another one and then toggled off
\* again, the other row staying selected.
C15_Witness ==
    /\ OpName(lastOp) = "selectPart"
    /\ lastOp[2] >= 0 /\ lastOp[2] < Len(m_notations)
    /\ lastOp[2] \notin Range(selection)
    /\ selection # <<>>

\* C16: removePart(i) on a valid row closes the handle on row i, removes
\* that row and no other, and signals the removal of row i and of no other
\* row.
C16_RemoveExactlyRow ==
    [][(OpName(lastOp') = "removePart"
           /\ lastOp'[2] >= 0 /\ lastOp'[2] < Len(m_notations)) =>
           LET i == lastOp'[2]
           IN /\ ~opened'[At(m_notations, i)]
              /\ Len(m_notations') = Len(m_notations) - 1
              /\ \A row \in 0 .. (i - 1) :
                     At(m_notations', row) = At(m_notations, row)
              /\ \A row \in (i + 1) .. (Len(m_notations) - 1) :
                     At(m_notations', row - 1) = At(m_notations, row)
              /\ \E k \in 1 .. Len(notifications') :
                     notifications'[k] = <<"rowsRemoved", i, i>>
              /\ \A k \in 1 .. Len(notifications') :
                     notifications'[k][1] = "rowsRemoved" =>
                         notifications'[k] = <<"rowsRemoved", i, i>>]_vars

\* C16 witness: the middle row of three was removed and its handle is
\* closed.
C16_Witness ==
    /\ OpName(lastOp) = "removePart"
    /\ lastOp[2] = 1
    /\ Len(m_notations) = 2
    /\ notifications # <<>>
    /\ m_notations[2] \in NewHandles
    /\ ~opened[1]

\* C17: when apply() runs, the handle it hands the host as the current
\* notation is unset or a handle of the sequence.
C17_AppliedCurrentInSequence ==
    OpName(lastOp) = "apply" => hostCurrent \subseteq Range(m_notations)

\* the signals that tell the display surface of a change of the rows
StructuralNotes ==
    {k \in 1 .. Len(notifications) :
         notifications[k][1] \in {"modelReset", "rowsInserted", "rowsRemoved"}}

\* C18: a display surface that patches its cached list with each reset,
\* insertion and removal signal holds the adapter's rows in the adapter's
\* order, and the sequence never changes without such a signal.
C18_DisplayFollowsSequence ==
    [][/\ displayed' = m_notations'
       /\ Len(displayed') = rowCount'
       /\ m_notations' # m_notations => StructuralNotes' # {}]_vars

\* C18 witness: after a reset and an insertion, removeSelectedParts()
\* removed a row; the display surface handled each signal and shows the
\* rows that are left.
C18_Witness ==
    /\ OpName(lastOp) = "removeSelectedParts"
    /\ StructuralNotes # {}
    /\ loads >= 1
    /\ allocated >= 1
    /\ Len(displayed) >= 2
    /\ displayed = m_notations

\* C19: the rows of the sequence are pairwise distinct handles.
C19_RowsDistinct ==
    \A j, k \in 1 .. Len(m_notations) :
        j # k => m_notations[j] # m_notations[k]

\* the last query asked for the voices title of a row of the sequence
VoicesTitleQueried ==
    /\ OpName(lastOp) = "data"
    /\ lastOp[3] = "voicesTitle"
    /\ lastOp[2] >= 0 /\ lastOp[2] < Len(m_notations)

\* the 1-based numbers in the set numbers, ascending, joined by ", "
RECURSIVE AscendingList(_)
AscendingList(numbers) ==
    IF numbers = {} THEN <<>>
    ELSE LET least == CHOOSE n \in numbers : \A m \in numbers : n <= m
             digit == <<"1", "2", "3", "4", "5", "6", "7", "8", "9">>[least]
         IN IF numbers = {least} THEN <<digit>>
            ELSE <<digit, ",", " ">> \o AscendingList(numbers \ {least})

\* C12: the voices title of a row is "None" exactly when no voice is
\* visible, "All" exactly when every voice is, and otherwise the ascending
\* list of the 1-based numbers of the visible voices, joined by ", ".
C12_VoicesTitle ==
    VoicesTitleQueried =>
        LET visible == voiceVisible[At(m_notations, lastOp[2])]
            title == queried[2]
        IN /\ (title = <<"N", "o", "n", "e">>) = (\A v \in Voices : ~visible[v])
           /\ (title = <<"A", "l", "l">>) = (\A v \in Voices : visible[v])
           /\ ((\E v \in Voices : visible[v]) /\ (\E v \in Voices : ~visible[v])) =>
                  title = AscendingList({v + 1 : v \in {w \in Voices : visible[w]}})

\* C12 witness: the voices title of the master row, with the third voice
\* hidden and the others visible, was queried and lists three voices.
C12_Witness ==
    /\ VoicesTitleQueried
    /\ lastOp[2] = 0
    /\ LET visible == voiceVisible[At(m_notations, lastOp[2])]
       IN /\ visible[0] /\ visible[1] /\ ~visible[2] /\ visible[3]
    /\ Len(queried[2]) = 7

\* the voice visibility vector [false, true, false, true]
Voices2And4 == [v \in Voices |-> v % 2 = 1]

\* C13 as stated: the voices title of a row with visibility
\* [false, true, false, true] is "2, 3".
C13_VoicesTitleExampleAsStated ==
    (VoicesTitleQueried /\ voiceVisible[At(m_notations, lastOp[2])] = Voices2And4)
        => queried[2] = <<"2", ",", " ", "3">>

\* C13 amended: the voices title of a row with visibility
\* [false, true, false, true] is "2, 4".
C13_VoicesTitleExample ==
    (VoicesTitleQueried /\ voiceVisible[At(m_notations, lastOp[2])] = Voices2And4)
        => queried[2] = <<"2", ",", " ", "4">>

\* C13 witness: the voices title of the excerpt row, with visibility
\* [false, true, false, true], was queried.
C13_Witness ==
    /\ VoicesTitleQueried
    /\ lastOp[2] = 1
    /\ voiceVisible[At(m_notations, lastOp[2])] = Voices2And4
    /\ queried[1] = "voicesTitle"

=============================================================================
